---------------------------- MODULE Spec2Model ----------------------------
(***************************************************************************)
(* Three independent browser-UI controllers:                                *)
(*   BlogList   (fetch with cache and retry, filter / search / sort,        *)
(*               growing-window rendering),                                 *)
(*   Navigation (mobile menu, scroll-spy highlighting, keyboard focus),     *)
(*   DragDrop   (mouse and touch drag of items into drop zones).            *)
(* Each controller has its own specification; the variables of the other    *)
(* controllers stay at their initial values.                                *)
(***************************************************************************)
EXTENDS Integers, Sequences, FiniteSets, TLC

VARIABLES
    bl,      \* the BlogList object (this.*) and the DOM nodes it owns
    call,    \* the fetchData invocations: position, locals and bookkeeping
    now,     \* Date.now(), in milliseconds
    nav,     \* the Navigation controller's DOM state
    dd       \* the DragDrop controller's state and DOM

vars == <<bl, call, now, nav, dd>>

(***************************************************************************)
(*                               BlogList                                   *)
(***************************************************************************)

apiUrl == "https://frontend-blog-lyart.vercel.app/blogsData.json"

perPage == 10

cacheExpiry == 5 * 60 * 1000

InitialRetries == 3

\* The fetchData invocations that can be in progress together: the one made
\* by init and a direct call of the public method.  A direct call can be made
\* again whenever the previous one has settled.
InitCall == "init"

DirectCall == "direct"

Calls == {InitCall, DirectCall}

\* Clock: Tick advances Date.now() by TickMs, up to MaxTicks times.
TickMs == 150000

MaxTicks == 2

\* Length of the long data set (longer than one page).
LargeLen == 11

------------------------------------------------------------------------------
\* Blog entries.  title: sequence of characters; published_date: <<y, m, d>>;
\* reading_time: sequence of characters whose leading ones are digits;
\* tags: sequence of strings.

Entry(t, c, g, d, r) ==
    [title |-> t, category |-> c, tags |-> g, published_date |-> d, reading_time |-> r]

Small ==
    << Entry(<<"A">>,      "x", <<"t">>, <<2024, 1, 1>>, <<"5", " ", "m">>),
       Entry(<<"B">>,      "y", <<"x">>, <<2024, 3, 1>>, <<"1", "0", " ", "m">>),
       Entry(<<"a", "b">>, "y", <<>>,    <<2024, 2, 1>>, <<"5">>) >>

Digits == <<"0", "1", "2", "3", "4", "5", "6", "7", "8", "9">>

Large ==
    [i \in 1..LargeLen |->
        Entry(IF i % 3 = 0 THEN <<"a", "P">> ELSE <<"P">>,
              IF i % 2 = 0 THEN "x" ELSE "y",
              IF i % 4 = 0 THEN <<"y">> ELSE <<>>,
              <<2023, 1 + (i % 3), 1 + (i % 2)>>,
              <<Digits[(i % 4) + 2]>>)]

Datasets == {Small, Large}

SortValues == {"", "date", "reading_time", "category"}

FilterValues == {"", "x", "y"}

SearchValues == {<<>>, <<"a">>, <<"B">>}

------------------------------------------------------------------------------
\* String and number conversions used by the handlers.

toLowerCase(s) ==
    [i \in 1..Len(s) |->
        CASE s[i] = "A" -> "a"
          [] s[i] = "B" -> "b"
          [] s[i] = "P" -> "p"
          [] OTHER -> s[i]]

includes(hay, needle) ==
    \E i \in 0..(Len(hay) - Len(needle)) :
        SubSeq(hay, i + 1, i + Len(needle)) = needle

IsDigit(ch) == \E i \in 1..Len(Digits) : Digits[i] = ch

DigitValue(ch) == (CHOOSE i \in 1..Len(Digits) : Digits[i] = ch) - 1

RECURSIVE ParseDigits(_, _)
ParseDigits(s, acc) ==
    IF s = <<>> \/ ~IsDigit(Head(s)) THEN acc
    ELSE ParseDigits(Tail(s), 10 * acc + DigitValue(Head(s)))

\* parseInt on a string that starts with a digit: the leading digits' value.
parseInt(s) == ParseDigits(s, 0)

\* new Date(s) as a number: later dates give larger values.
DateValue(d) == (d[1] * 12 + d[2]) * 31 + d[3]

\* String.prototype.localeCompare on the category names.
Collation == <<"x", "y">>

CollationIndex(s) == CHOOSE i \in 1..Len(Collation) : Collation[i] = s

localeCompare(a, b) ==
    IF CollationIndex(a) < CollationIndex(b) THEN -1
    ELSE IF CollationIndex(a) > CollationIndex(b) THEN 1 ELSE 0

\* The comparator of onSortChange.
Compare(by, a, b) ==
    CASE by = "date" -> DateValue(b.published_date) - DateValue(a.published_date)
      [] by = "reading_time" -> parseInt(b.reading_time) - parseInt(a.reading_time)
      [] by = "category" -> localeCompare(a.category, b.category)
      [] OTHER -> 0

\* Array.prototype.sort is stable: x goes after every element not greater.
RECURSIVE InsertSorted(_, _, _)
InsertSorted(by, sorted, x) ==
    IF sorted = <<>> THEN <<x>>
    ELSE IF Compare(by, Head(sorted), x) <= 0
         THEN <<Head(sorted)>> \o InsertSorted(by, Tail(sorted), x)
         ELSE <<x>> \o sorted

RECURSIVE StableSort(_, _)
StableSort(by, s) ==
    IF s = <<>> THEN <<>>
    ELSE InsertSorted(by, StableSort(by, SubSeq(s, 1, Len(s) - 1)), s[Len(s)])

InSeq(x, s) == \E i \in 1..Len(s) : s[i] = x

\* item.category === val || (item.tags && item.tags.includes(val))
MatchesFilter(item, val) == item.category = val \/ InSeq(val, item.tags)

\* item.title.toLowerCase().includes(q)
MatchesSearch(item, q) == includes(toLowerCase(item.title), q)

\* Array.prototype.filter with the two predicates.
RECURSIVE FilterByCategory(_, _)
FilterByCategory(s, val) ==
    IF s = <<>> THEN <<>>
    ELSE IF MatchesFilter(Head(s), val)
         THEN <<Head(s)>> \o FilterByCategory(Tail(s), val)
         ELSE FilterByCategory(Tail(s), val)

RECURSIVE FilterBySearch(_, _)
FilterBySearch(s, q) ==
    IF s = <<>> THEN <<>>
    ELSE IF MatchesSearch(Head(s), q)
         THEN <<Head(s)>> \o FilterBySearch(Tail(s), q)
         ELSE FilterBySearch(Tail(s), q)

Min(a, b) == IF a < b THEN a ELSE b

------------------------------------------------------------------------------
\* The methods of BlogList, as functions of the object t (this).

\* The list container's content: the rendered entries or the notice.
Articles(slice) == [kind |-> "articles", entries |-> slice]

NoResults == [kind |-> "no-results", entries |-> <<>>]

render_OneMore(t) ==
    LET slice == SubSeq(t.filteredItems, 1, Min(t.page * perPage + 1, Len(t.filteredItems)))
    IN  [t EXCEPT !.listContent = IF Len(slice) = 0 THEN NoResults ELSE Articles(slice)]

render(t) ==
    LET end   == t.page * perPage
        slice == SubSeq(t.filteredItems, 1, Min(end, Len(t.filteredItems)))
    IN  [t EXCEPT !.listContent = IF Len(slice) = 0 THEN NoResults ELSE Articles(slice)]

\* this.filteredItems.sort(...) sorts the array in place: when items is the
\* same array (t.shared) it is sorted with it, and so is the cached data,
\* which is the array items was assigned from.
SortInPlace(t, by) ==
    LET sorted == StableSort(by, t.filteredItems)
    IN  IF ~t.shared THEN [t EXCEPT !.filteredItems = sorted]
        ELSE [t EXCEPT !.filteredItems = sorted,
                       !.items = sorted,
                       !.cache = [u \in DOMAIN @ |-> [@[u] EXCEPT !.data = sorted]]]

onSortChange(t, by) ==
    LET t1 == [t EXCEPT !.currentSort = by]
        t2 == IF by # "" THEN SortInPlace(t1, by) ELSE t1
    IN  render([t2 EXCEPT !.page = 1])

onFilterChange_NoSearch(t, val) ==
    LET t1 == [t EXCEPT !.currentFilter = val]
        t2 == IF val # ""
              THEN [t1 EXCEPT !.filteredItems = FilterByCategory(t1.items, val),
                              !.shared = FALSE]
              ELSE [t1 EXCEPT !.filteredItems = t1.items, !.shared = FALSE]
        t4 == IF t2.currentSort # "" THEN onSortChange(t2, t2.currentSort) ELSE t2
    IN  render([t4 EXCEPT !.page = 1])

onFilterChange(t, val) ==
    LET t1 == [t EXCEPT !.currentFilter = val]
        t2 == IF val # ""
              THEN [t1 EXCEPT !.filteredItems = FilterByCategory(t1.items, val),
                              !.shared = FALSE]
              ELSE [t1 EXCEPT !.filteredItems = t1.items, !.shared = FALSE]
        t3 == IF t2.currentSearch # <<>>
              THEN [t2 EXCEPT !.filteredItems =
                        FilterBySearch(t2.filteredItems, t2.currentSearch)]
              ELSE t2
        t4 == IF t3.currentSort # "" THEN onSortChange(t3, t3.currentSort) ELSE t3
    IN  render([t4 EXCEPT !.page = 1])

onSearchInput(t, value) ==
    LET q  == toLowerCase(value)
        t1 == [t EXCEPT !.currentSearch = q]
        \* q non-empty: search, then the current filter, then the current sort
        a1 == [t1 EXCEPT !.filteredItems = FilterBySearch(t1.items, q),
                         !.shared = FALSE]
        a2 == IF a1.currentFilter # ""
              THEN [a1 EXCEPT !.filteredItems =
                        FilterByCategory(a1.filteredItems, a1.currentFilter)]
              ELSE a1
        a3 == IF a2.currentSort # "" THEN onSortChange(a2, a2.currentSort) ELSE a2
        \* q empty: all items, then onFilterChange when a filter is set
        b1 == [t1 EXCEPT !.filteredItems = t1.items, !.shared = FALSE]
        b2 == IF b1.currentFilter # "" THEN onFilterChange(b1, b1.currentFilter) ELSE b1
        t2 == IF q # <<>> THEN a3 ELSE b2
    IN  render([t2 EXCEPT !.page = 1])

showLoading(t) ==
    IF t.hasLoadingIndicator THEN [t EXCEPT !.loadingHidden = FALSE] ELSE t

hideLoading(t) ==
    IF t.hasLoadingIndicator THEN [t EXCEPT !.loadingHidden = TRUE] ELSE t

showError(t, message) ==
    IF ~t.hasErrorContainer THEN t
    ELSE [t EXCEPT !.errorHidden = FALSE, !.errorText = "Error: " \o message]

setupEventListeners(t) == [t EXCEPT !.listening = TRUE]

\* this.cache: a Map from URL to {data, timestamp}.
EmptyMap == [u \in {} |-> 0]

MapSet(m, k, v) == [u \in (DOMAIN m) \cup {k} |-> IF u = k THEN v ELSE m[u]]

\* The state after the constructor ran on the page's markup.  shared: items
\* and filteredItems are one array; searchValue: the search input's value;
\* searchTimer, searchElapsed: the debounce timer and the time since it was
\* set; changedWhilePending: a sort or filter change came while it was pending.
BlogListNew(hasLoading, hasError) ==
    [items |-> <<>>, filteredItems |-> <<>>, page |-> 1,
     cache |-> EmptyMap,
     currentSort |-> "", currentFilter |-> "", currentSearch |-> <<>>,
     hasLoadingIndicator |-> hasLoading, hasErrorContainer |-> hasError,
     loadingHidden |-> TRUE, errorHidden |-> TRUE, errorText |-> "",
     listContent |-> Articles(<<>>),
     listening |-> FALSE,
     shared |-> FALSE,
     searchValue |-> <<>>, searchTimer |-> FALSE, searchElapsed |-> 0,
     changedWhilePending |-> FALSE,
     initPc |-> "idle"]

------------------------------------------------------------------------------
\* fetchData and init.  A call is at "idle" (not made), "fetch" (awaiting the
\* network), "delay" (awaiting the retry timer), "ok" (returned) or "err"
\* (threw).  attempts, delays, startedAt, got and lastFailure record what the
\* call did and met; the code does not read them.

NoResponse == [kind |-> "none", data |-> <<>>, text |-> ""]

CallNew ==
    [pc |-> "idle", retries |-> 0, lastError |-> "", thrown |-> "",
     attempts |-> 0, delays |-> <<>>, startedAt |-> -1,
     got |-> <<>>, lastFailure |-> NoResponse]

\* What the network answers to one attempt.
HttpStatuses == {"500"}

Responses ==
    {[kind |-> "ok", data |-> d, text |-> ""] : d \in Datasets}
    \cup {[kind |-> "http", data |-> <<>>, text |-> st] : st \in HttpStatuses}
    \cup {[kind |-> "not-array", data |-> <<>>, text |-> ""]}
    \cup {[kind |-> "reject", data |-> <<>>, text |-> "Failed to fetch"]}

\* The message of the error an attempt throws.
AttemptError(r) ==
    CASE r.kind = "http" -> "HTTP error! status: " \o r.text
      [] r.kind = "not-array" -> "Unexpected API response"
      [] OTHER -> r.text

CacheFresh_NoExpiry(cache, time) == apiUrl \in DOMAIN cache

\* cachedData && Date.now() - cachedData.timestamp < this.cacheExpiry
CacheFresh(cache, time) ==
    /\ apiUrl \in DOMAIN cache
    /\ time - cache[apiUrl].timestamp < cacheExpiry

\* setTimeout(resolve, 1000 * (3 - retries))
RetryDelay(retries) == 1000 * (3 - retries)

RetryAgain_OneMore(retries) == retries >= 0

\* More attempts follow while (retries > 0).
RetryAgain(retries) == retries > 0

WrapError(message) == "Failed to fetch blogs: " \o message

LoadItems_ItemsOnly(t, data) == [t EXCEPT !.items = data]

LoadItems_NoCopy(t, data) ==
    [t EXCEPT !.items = data, !.filteredItems = data, !.shared = TRUE]

\* this.items = data; this.filteredItems = [...data]
LoadItems(t, data) ==
    [t EXCEPT !.items = data, !.filteredItems = data, !.shared = FALSE]

StoreInCache(t, data, time) ==
    [t EXCEPT !.cache = MapSet(t.cache, apiUrl, [data |-> data, timestamp |-> time])]

\* init after fetchData returned, and after it threw.
initResolved(t) ==
    [hideLoading(render(setupEventListeners(t))) EXCEPT !.initPc = "ready"]

initRejected_NoFinally(t, message) ==
    [showError(t, message) EXCEPT !.initPc = "error"]

initRejected(t, message) ==
    [hideLoading(showError(t, message)) EXCEPT !.initPc = "error"]

\* The continuation of the caller once call c has settled.
Settle(t, c, ok, message) ==
    IF c # InitCall THEN t
    ELSE IF ok THEN initResolved(t) ELSE initRejected(t, message)

\* fetchData up to its first await: the cache check and the first attempt.
FetchDataBegin(c) ==
    LET hit   == CacheFresh(bl.cache, now)
        book  == [CallNew EXCEPT !.startedAt = now]
        t0    == IF c = InitCall THEN [showLoading(bl) EXCEPT !.initPc = "loading"] ELSE bl
    IN  /\ call[c].pc \in {"idle", "ok", "err"}
        /\ IF hit
           THEN /\ call' = [call EXCEPT ![c] = [book EXCEPT !.pc = "ok"]]
                /\ bl' = Settle(LoadItems(t0, t0.cache[apiUrl].data), c, TRUE, "")
           ELSE /\ call' = [call EXCEPT ![c] =
                               [book EXCEPT !.pc = "fetch", !.retries = InitialRetries,
                                            !.attempts = 1]]
                /\ bl' = t0
        /\ UNCHANGED <<now, nav, dd>>

\* BlogList.init()
InitStart ==
    /\ bl.initPc = "idle"
    /\ FetchDataBegin(InitCall)

\* A direct call of BlogList.fetchData()
FetchDataCall(c) ==
    /\ c # InitCall
    /\ FetchDataBegin(c)

\* The awaited fetch settles with response r: the rest of the loop body up to
\* the next await or the end of fetchData.
Respond(c, r) ==
    /\ call[c].pc = "fetch"
    /\ IF r.kind = "ok"
       THEN \* return: the locals retries and lastError end with the call
            /\ call' = [call EXCEPT ![c].pc = "ok", ![c].got = r.data,
                                     ![c].retries = 0, ![c].lastError = ""]
            /\ bl' = Settle(LoadItems(StoreInCache(bl, r.data, now), r.data), c, TRUE, "")
       ELSE LET retries == call[c].retries - 1
                failed  == [call[c] EXCEPT !.lastError = AttemptError(r),
                                           !.retries = retries,
                                           !.lastFailure = r]
            IN  IF RetryAgain(retries)
                THEN /\ call' = [call EXCEPT ![c] =
                                    [failed EXCEPT !.pc = "delay",
                                                   !.delays = Append(@, RetryDelay(retries))]]
                     /\ bl' = bl
                ELSE /\ call' = [call EXCEPT ![c] =
                                    [failed EXCEPT !.pc = "err",
                                                   !.thrown = WrapError(failed.lastError)]]
                     /\ bl' = Settle(bl, c, FALSE, WrapError(failed.lastError))
    /\ UNCHANGED <<now, nav, dd>>

\* The retry timer fires: the next attempt is issued.
DelayDone(c) ==
    /\ call[c].pc = "delay"
    /\ call' = [call EXCEPT ![c].pc = "fetch", ![c].attempts = @ + 1]
    /\ UNCHANGED <<bl, now, nav, dd>>

Tick ==
    /\ now < MaxTicks * TickMs
    /\ now' = now + TickMs
    /\ UNCHANGED <<bl, call, nav, dd>>

------------------------------------------------------------------------------
\* The listeners installed by setupEventListeners.

\* The delay of the search input's debounce timer, and the steps in which
\* time passes while it is pending.
DebounceMs == 250

ElapseSteps == {125, 250}

SortChange(by) ==
    /\ bl.listening
    /\ bl' = [onSortChange(bl, by) EXCEPT !.changedWhilePending = @ \/ bl.searchTimer]
    /\ UNCHANGED <<call, now, nav, dd>>

FilterChange(val) ==
    /\ bl.listening
    /\ bl' = [onFilterChange(bl, val) EXCEPT !.changedWhilePending = @ \/ bl.searchTimer]
    /\ UNCHANGED <<call, now, nav, dd>>

\* An input event: clearTimeout(t); t = setTimeout(..., 250)
SearchInputEvent(value) ==
    /\ bl.listening
    /\ bl' = [bl EXCEPT !.searchValue = value, !.searchTimer = TRUE,
                         !.searchElapsed = 0, !.changedWhilePending = FALSE]
    /\ UNCHANGED <<call, now, nav, dd>>

\* The debounce timer fires: onSearchInput reads the input's value.
SearchTimerFire ==
    /\ bl.searchTimer
    /\ bl.searchElapsed = DebounceMs
    /\ bl' = onSearchInput([bl EXCEPT !.searchTimer = FALSE, !.searchElapsed = 0,
                                      !.changedWhilePending = FALSE],
                           bl.searchValue)
    /\ UNCHANGED <<call, now, nav, dd>>

\* d ms pass while the debounce timer is pending; the timer fires when its
\* delay has passed.
Elapse(d) ==
    /\ bl.searchTimer
    /\ bl.searchElapsed + d <= DebounceMs
    /\ bl' = [bl EXCEPT !.searchElapsed = @ + d]
    /\ UNCHANGED <<call, now, nav, dd>>

(***************************************************************************)
(*                              Navigation                                  *)
(***************************************************************************)

\* Number of .nav-link elements; link i has href "#" \o Href(i).
NumLinks == 3

LinkNames == <<"home", "about", "contact", "blog", "team">>

Href(i) == LinkNames[i]

NavLinks == 1..NumLinks

\* The ids of the page's section elements; "promo" has no nav link and
\* "contact" and later names have no element.
Sections == {"home", "about", "promo"}

Widths == {700, 767, 768, 800}

ScrollPositions == {0, 120}

Keys == {"Escape", "ArrowDown", "ArrowRight", "ArrowUp", "ArrowLeft", "Tab"}

\* Entries one observer callback delivers, and the ratios (in percent).
MaxEntries == 1

Ratios == {0, 50}

\* Pending focus timers and history entries the model keeps apart.
MaxFocusTimers == 1

MaxHistory == 1

\* The % operator of the language: the sign follows the dividend.
JsRem(a, n) == IF a >= 0 THEN a % n ELSE -((-a) % n)

AllListeners == {"toggle", "resize", "scroll", "keydown", "observer", "link-click"}

NoEvent == [ev |-> "none", arg |-> "", visibleBefore |-> FALSE, focusBefore |-> 0]

\* The last event handled, with the menu and focus state it met.
Event(n, ev, arg) ==
    [ev |-> ev, arg |-> arg,
     visibleBefore |-> n.visible /\ ev \in {"keydown", "resize", "click"},
     focusBefore |-> IF ev = "keydown" THEN n.focus ELSE 0]

highlightNavLink(n, sectionId) ==
    LET match == {i \in NavLinks : Href(i) = sectionId}
    IN  [n EXCEPT !.active = match, !.ariaCurrent = match]

closeNav_AriaOnly(n) == [n EXCEPT !.ariaExpanded = "false"]

closeNav(n) == [n EXCEPT !.ariaExpanded = "false", !.visible = FALSE]

toggleNav_ClassOnly(n) ==
    [n EXCEPT !.visible = ~n.visible,
              !.focusTimers = IF n.ariaExpanded # "true" THEN Min(@ + 1, MaxFocusTimers) ELSE @]

toggleNav(n) ==
    LET isExpanded == n.ariaExpanded = "true"
    IN  [n EXCEPT !.ariaExpanded = IF isExpanded THEN "false" ELSE "true",
                  !.visible = ~n.visible,
                  !.focusTimers = IF ~isExpanded THEN Min(@ + 1, MaxFocusTimers) ELSE @]

handleResize(n) ==
    IF n.innerWidth >= 768
    THEN [n EXCEPT !.visible = FALSE, !.ariaExpanded = "false"]
    ELSE n

handleScroll(n) == [n EXCEPT !.sticky = n.scrollY > 0]

\* links[idx].focus(); an index outside the list throws and nothing moves.
FocusLink(n, idx) ==
    IF idx \in 0..(NumLinks - 1) THEN [n EXCEPT !.focus = idx + 1] ELSE n

NextIdx(currentIdx) == JsRem(currentIdx + 1, NumLinks)

PrevIdx_NoWrap(currentIdx) == JsRem(currentIdx - 1, NumLinks)

PrevIdx(currentIdx) == JsRem(currentIdx - 1 + NumLinks, NumLinks)

handleKeydown(n, key) ==
    LET n1 == IF key = "Escape" THEN closeNav(n) ELSE n
        currentIdx == n1.focus - 1
    IN  IF ~n1.visible THEN n1
        ELSE IF key \in {"ArrowDown", "ArrowRight"} THEN FocusLink(n1, NextIdx(currentIdx))
        ELSE IF key \in {"ArrowUp", "ArrowLeft"} THEN FocusLink(n1, PrevIdx(currentIdx))
        ELSE n1

PushState(h, fragment) ==
    LET all == Append(h, fragment)
    IN  SubSeq(all, Len(all) - Min(Len(all), MaxHistory) + 1, Len(all))

\* The click listener of nav link i.
linkClick(n, i) ==
    LET targetId == Href(i)
    IN  IF targetId \notin Sections THEN n
        ELSE LET n1 == IF n.innerWidth < 768 THEN closeNav(n) ELSE n
                 n2 == [n1 EXCEPT !.scrolledTo = targetId,
                                  !.history = PushState(@, "#" \o targetId)]
             IN  highlightNavLink(n2, targetId)

Qualifies(entry) == entry.isIntersecting /\ entry.ratio >= 50

\* The IntersectionObserver callback: entries.forEach(...)
RECURSIVE observerCallback(_, _)
observerCallback(n, entries) ==
    IF entries = <<>> THEN n
    ELSE observerCallback(
             IF Qualifies(Head(entries)) THEN highlightNavLink(n, Head(entries).target) ELSE n,
             Tail(entries))

destroy(n) ==
    [n EXCEPT !.listeners = @ \ {"observer", "toggle", "resize", "scroll", "keydown"}]

\* The constructor on a page whose markup marks the links in active0, at
\* viewport width w: init() ends with handleResize().
NavNew(w, active0) ==
    handleResize(
        [innerWidth |-> w, scrollY |-> 0, sticky |-> FALSE,
         visible |-> FALSE, ariaExpanded |-> "false",
         active |-> active0, ariaCurrent |-> active0,
         focus |-> 0, focusTimers |-> 0,
         history |-> <<>>, scrolledTo |-> "",
         listeners |-> AllListeners,
         last |-> NoEvent, lastTarget |-> ""])

ObserverEntries ==
    {e \in [target : Sections, isIntersecting : BOOLEAN, ratio : Ratios] :
        e.ratio > 0 => e.isIntersecting}

EntryLists == UNION {[1..k -> ObserverEntries] : k \in 1..MaxEntries}

\* The section the last qualifying entries of a callback report, if any.
RECURSIVE LastReported(_, _)
LastReported(entries, before) ==
    IF entries = <<>> THEN before
    ELSE LastReported(Tail(entries),
                      IF Head(entries).isIntersecting /\ Head(entries).ratio >= 50
                      THEN Head(entries).target ELSE before)

NavToggleClick ==
    /\ "toggle" \in nav.listeners
    /\ nav' = [toggleNav(nav) EXCEPT !.last = Event(nav, "other", "")]
    /\ UNCHANGED <<bl, call, now, dd>>

NavResize(w) ==
    LET n1 == [nav EXCEPT !.innerWidth = w]
    IN  /\ nav' = IF "resize" \in nav.listeners
                  THEN [handleResize(n1) EXCEPT !.last = Event(nav, "resize", "")]
                  ELSE [n1 EXCEPT !.last = Event(nav, "other", "")]
        /\ UNCHANGED <<bl, call, now, dd>>

NavScroll(y) ==
    LET n1 == [nav EXCEPT !.scrollY = y]
    IN  /\ nav' = IF "scroll" \in nav.listeners
                  THEN [handleScroll(n1) EXCEPT !.last = Event(nav, "other", "")]
                  ELSE [n1 EXCEPT !.last = Event(nav, "other", "")]
        /\ UNCHANGED <<bl, call, now, dd>>

NavKeydown(key) ==
    /\ "keydown" \in nav.listeners
    /\ nav' = [handleKeydown(nav, key) EXCEPT !.last = Event(nav, "keydown", key)]
    /\ UNCHANGED <<bl, call, now, dd>>

NavLinkClick(i) ==
    /\ "link-click" \in nav.listeners
    /\ nav' = [linkClick(nav, i) EXCEPT
                  !.last = Event(nav, "click", Href(i)),
                  !.lastTarget = IF Href(i) \in Sections THEN Href(i) ELSE @]
    /\ UNCHANGED <<bl, call, now, dd>>

NavIntersect(entries) ==
    /\ "observer" \in nav.listeners
    /\ nav' = [observerCallback(nav, entries) EXCEPT
                  !.last = Event(nav, "intersect", ""),
                  !.lastTarget = LastReported(entries, @)]
    /\ UNCHANGED <<bl, call, now, dd>>

\* The timer set by toggleNav fires: this.navLinks[0].focus()
NavFocusTimer ==
    /\ nav.focusTimers > 0
    /\ nav' = [nav EXCEPT !.focusTimers = @ - 1, !.focus = 1,
                          !.last = Event(nav, "other", "")]
    /\ UNCHANGED <<bl, call, now, dd>>

\* The user moves focus (Tab, a click elsewhere); 0 is an element that is no nav link.
NavFocusMove(f) ==
    /\ f # nav.focus
    /\ nav' = [nav EXCEPT !.focus = f, !.last = Event(nav, "other", "")]
    /\ UNCHANGED <<bl, call, now, dd>>

NavDestroy ==
    /\ nav' = [destroy(nav) EXCEPT !.last = Event(nav, "other", "")]
    /\ UNCHANGED <<bl, call, now, dd>>

(***************************************************************************)
(*                               DragDrop                                   *)
(***************************************************************************)

\* The .draggable-item and .drop-zone elements present when init() runs.
NumItems == 2

NumZones == 2

Items == 1..NumItems

Zones == 1..NumZones

\* Timers of earlier touchstarts that this.touchTimeout no longer names.
MaxStaleTimers == 1

\* Items a zone holds at most before a further mouse drop on it is left out.
MaxZoneItems == 2

\* A copy of item i made by cloneNode(true): classes and inline style are
\* copied, listeners are not.
Clone(d, i, keepStyle) ==
    [item |-> i, dragging |-> d.dragging[i], fixed |-> keepStyle /\ d.fixed[i]]

NoDragEvent == [ev |-> "none", item |-> 0, zone |-> 0]

ClearDragOver(d) == [d EXCEPT !.over = [z \in Zones |-> FALSE]]

handleDragStart(d, i) ==
    [d EXCEPT !.draggedItem = i, !.dragging[i] = TRUE]

\* e.target is the item the drag started on.
handleDragEnd(d, i) ==
    ClearDragOver([d EXCEPT !.dragging[i] = FALSE, !.draggedItem = 0])

\* onZone: e.target is the zone itself and not an element inside it.
handleDragEnter(d, z, onZone) ==
    IF onZone THEN [d EXCEPT !.over[z] = TRUE] ELSE d

handleDragLeave(d, z, onZone) ==
    IF onZone THEN [d EXCEPT !.over[z] = FALSE] ELSE d

handleDrop(d, z) ==
    IF d.draggedItem = 0 THEN d
    ELSE [d EXCEPT !.zone[z] = Append(@, Clone(d, d.draggedItem, TRUE)),
                   !.where[d.draggedItem] = "gone",
                   !.over[z] = FALSE]

handleTouchStart(d, i) ==
    [d EXCEPT !.draggedItem = i,
              !.touchTimeout = TRUE,
              !.staleTimers = IF d.touchTimeout THEN Min(@ + 1, MaxStaleTimers) ELSE @]

\* The 200 ms timer of a touchstart fires.
touchTimerFired(d) ==
    IF d.draggedItem # 0 THEN [d EXCEPT !.dragging[d.draggedItem] = TRUE] ELSE d

\* under: the drop zone document.elementFromPoint returns, 0 when it returns
\* no drop zone.
handleTouchMove(d, under) ==
    IF d.draggedItem = 0 THEN d
    ELSE LET d1 == [d EXCEPT !.fixed[d.draggedItem] = TRUE]
         IN  IF under # 0 THEN [d1 EXCEPT !.over[under] = TRUE] ELSE d1

handleTouchEnd_KeepStyle(d, under) ==
    IF d.draggedItem = 0 THEN d
    ELSE LET i  == d.draggedItem
             d1 == [d EXCEPT !.touchTimeout = FALSE]
             d2 == IF under # 0
                   THEN [d1 EXCEPT !.zone[under] = <<Clone(d1, i, FALSE)>>,
                                   !.where[i] = "gone"]
                   ELSE d1
         IN  ClearDragOver([d2 EXCEPT !.dragging[i] = FALSE, !.draggedItem = 0])

handleTouchEnd(d, under) ==
    IF d.draggedItem = 0 THEN d
    ELSE LET i  == d.draggedItem
             d1 == [d EXCEPT !.touchTimeout = FALSE]
             d2 == IF under # 0
                   THEN [d1 EXCEPT !.zone[under] = <<Clone(d1, i, FALSE)>>,
                                   !.where[i] = "gone"]
                   ELSE [d1 EXCEPT !.fixed[i] = FALSE]
         IN  ClearDragOver([d2 EXCEPT !.dragging[i] = FALSE, !.draggedItem = 0])

\* The state after the constructor and init(): every item in its list, the
\* zones empty.  drag and touch are the gestures in progress (the item a
\* mouse drag or a touch started on, 0 for none); dropped: the drag has had
\* its drop event and only dragend follows; cloneDrag: a mouse drag that
\* started on a clone in a zone is in progress.
DragDropNew ==
    [draggedItem |-> 0, touchTimeout |-> FALSE, staleTimers |-> 0,
     where |-> [i \in Items |-> "list"],
     dragging |-> [i \in Items |-> FALSE],
     fixed |-> [i \in Items |-> FALSE],
     zone |-> [z \in Zones |-> <<>>],
     over |-> [z \in Zones |-> FALSE],
     drag |-> 0, cloneDrag |-> FALSE, dropped |-> FALSE, touch |-> 0,
     last |-> NoDragEvent]

\* The last event handled: for the events that end or move a gesture, the
\* dragged item they met and the zone they name.
DragEvent(ev, z) ==
    [ev |-> ev, item |-> IF ev = "other" THEN 0 ELSE dd.draggedItem, zone |-> z]

\* A mouse drag starts on an item of the document; the browser cancels a touch
\* in progress and suppresses input events until the drag ends.
\* A mouse drag is in progress, from an item or from a clone.
Dragging == dd.drag # 0 \/ dd.cloneDrag

DragStart(i) ==
    /\ ~Dragging
    /\ dd.where[i] = "list"
    /\ dd' = [handleDragStart(dd, i) EXCEPT !.drag = i, !.dropped = FALSE, !.touch = 0,
                                            !.last = DragEvent("other", 0)]
    /\ UNCHANGED <<bl, call, now, nav>>

DragEnter(z, onZone) ==
    /\ Dragging
    /\ ~dd.dropped
    /\ dd' = [handleDragEnter(dd, z, onZone) EXCEPT !.last = DragEvent("other", 0)]
    /\ UNCHANGED <<bl, call, now, nav>>

\* handleDragOver only sets the event's dropEffect.
DragOver(z) ==
    /\ Dragging
    /\ ~dd.dropped
    /\ dd' = [dd EXCEPT !.last = DragEvent("other", 0)]
    /\ UNCHANGED <<bl, call, now, nav>>

DragLeave(z, onZone) ==
    /\ Dragging
    /\ ~dd.dropped
    /\ dd' = [handleDragLeave(dd, z, onZone) EXCEPT !.last = DragEvent("other", 0)]
    /\ UNCHANGED <<bl, call, now, nav>>

Drop(z) ==
    /\ Dragging
    /\ ~dd.dropped
    /\ dd.draggedItem # 0 => Len(dd.zone[z]) < MaxZoneItems
    /\ dd' = [handleDrop(dd, z) EXCEPT !.dropped = TRUE, !.last = DragEvent("drop", z)]
    /\ UNCHANGED <<bl, call, now, nav>>

DragEnd ==
    /\ dd.drag # 0
    /\ dd' = [handleDragEnd(dd, dd.drag) EXCEPT !.drag = 0, !.dropped = FALSE,
                                                !.last = DragEvent("dragend", 0)]
    /\ UNCHANGED <<bl, call, now, nav>>

\* A mouse drag starts on the clone a drop left in zone z.  cloneNode copies
\* no listeners (they were added to the items found by init), so no
\* dragstart handler runs; the zones' listeners see the drag as any other.
CloneDragStart(z) ==
    /\ ~Dragging
    /\ dd.zone[z] # <<>>
    /\ dd' = [dd EXCEPT !.cloneDrag = TRUE, !.dropped = FALSE, !.touch = 0,
                         !.last = DragEvent("other", 0)]
    /\ UNCHANGED <<bl, call, now, nav>>

\* The drag of a clone ends: no dragend handler runs.
CloneDragEnd ==
    /\ dd.cloneDrag
    /\ dd' = [dd EXCEPT !.cloneDrag = FALSE, !.dropped = FALSE,
                         !.last = DragEvent("other", 0)]
    /\ UNCHANGED <<bl, call, now, nav>>

\* A touch on the clone in zone z, from touchstart to touchend: neither the
\* clone nor the zone has a touch listener.
CloneTouch(z) ==
    /\ ~Dragging
    /\ dd.touch = 0
    /\ dd.zone[z] # <<>>
    /\ dd' = [dd EXCEPT !.last = DragEvent("other", 0)]
    /\ UNCHANGED <<bl, call, now, nav>>

TouchStart(i) ==
    /\ ~Dragging
    /\ dd.touch = 0
    /\ dd.where[i] = "list"
    /\ dd' = [handleTouchStart(dd, i) EXCEPT !.touch = i, !.last = DragEvent("other", 0)]
    /\ UNCHANGED <<bl, call, now, nav>>

TouchTimer ==
    /\ dd.touchTimeout
    /\ dd' = [touchTimerFired(dd) EXCEPT !.touchTimeout = FALSE,
                                         !.last = DragEvent("other", 0)]
    /\ UNCHANGED <<bl, call, now, nav>>

StaleTouchTimer ==
    /\ dd.staleTimers > 0
    /\ dd' = [touchTimerFired(dd) EXCEPT !.staleTimers = @ - 1,
                                         !.last = DragEvent("other", 0)]
    /\ UNCHANGED <<bl, call, now, nav>>

TouchMove(under) ==
    /\ dd.touch # 0
    /\ dd' = [handleTouchMove(dd, under) EXCEPT !.last = DragEvent("touchmove", under)]
    /\ UNCHANGED <<bl, call, now, nav>>

TouchEnd(under) ==
    /\ dd.touch # 0
    /\ dd' = [handleTouchEnd(dd, under) EXCEPT !.touch = 0,
                                               !.last = DragEvent("touchend", under)]
    /\ UNCHANGED <<bl, call, now, nav>>

\* The browser cancels the touch (touchcancel has no listener).
TouchCancel ==
    /\ dd.touch # 0
    /\ dd' = [dd EXCEPT !.touch = 0, !.last = DragEvent("other", 0)]
    /\ UNCHANGED <<bl, call, now, nav>>

(***************************************************************************)
(*                            Specifications                                *)
(***************************************************************************)

InitBlog ==
    /\ \E hasLoading \in BOOLEAN, hasError \in BOOLEAN : bl = BlogListNew(hasLoading, hasError)
    /\ call = [c \in Calls |-> CallNew]
    /\ now = 0

\* The blog list on its page: init() once, then the user's filter, search
\* and sort events.
Init ==
    /\ InitBlog
    /\ nav = NavNew(800, {})
    /\ dd = DragDropNew

Next ==
    \/ InitStart
    \/ \E r \in Responses : Respond(InitCall, r)
    \/ DelayDone(InitCall)
    \/ \E by \in SortValues : SortChange(by)
    \/ \E val \in FilterValues : FilterChange(val)
    \/ \E value \in SearchValues : SearchInputEvent(value)
    \/ SearchTimerFire
    \/ \E d \in ElapseSteps : Elapse(d)

Spec == Init /\ [][Next]_vars

\* fetchData called by init and directly, with the clock running.
NextFetch ==
    \/ InitStart
    \/ FetchDataCall(DirectCall)
    \/ \E c \in Calls, r \in Responses : Respond(c, r)
    \/ \E c \in Calls : DelayDone(c)
    \/ Tick

SpecFetch == Init /\ [][NextFetch]_vars

InitNav ==
    /\ bl = BlogListNew(TRUE, TRUE)
    /\ call = [c \in Calls |-> CallNew]
    /\ now = 0
    /\ \E w \in Widths, active0 \in {{}, {1}} : nav = NavNew(w, active0)
    /\ dd = DragDropNew

NextNav ==
    \/ NavToggleClick
    \/ \E w \in Widths : NavResize(w)
    \/ \E y \in ScrollPositions : NavScroll(y)
    \/ \E key \in Keys : NavKeydown(key)
    \/ \E i \in NavLinks : NavLinkClick(i)
    \/ \E entries \in EntryLists : NavIntersect(entries)
    \/ NavFocusTimer
    \/ \E f \in 0..NumLinks : NavFocusMove(f)
    \/ NavDestroy

SpecNav == InitNav /\ [][NextNav]_vars

NextDrag ==
    \/ \E i \in Items : DragStart(i)
    \/ \E z \in Zones, onZone \in BOOLEAN : DragEnter(z, onZone)
    \/ \E z \in Zones : DragOver(z)
    \/ \E z \in Zones, onZone \in BOOLEAN : DragLeave(z, onZone)
    \/ \E z \in Zones : Drop(z)
    \/ DragEnd
    \/ \E i \in Items : TouchStart(i)
    \/ TouchTimer
    \/ StaleTouchTimer
    \/ \E under \in 0..NumZones : TouchMove(under)
    \/ \E under \in 0..NumZones : TouchEnd(under)
    \/ TouchCancel

InitDrag ==
    /\ bl = BlogListNew(TRUE, TRUE)
    /\ call = [c \in Calls |-> CallNew]
    /\ now = 0
    /\ nav = NavNew(800, {})
    /\ dd = DragDropNew

SpecDrag == InitDrag /\ [][NextDrag]_vars

\* The same page with the user's gestures on the clones the drops left in
\* the zones as well.
NextClone ==
    \/ NextDrag
    \/ \E z \in Zones : CloneDragStart(z)
    \/ CloneDragEnd
    \/ \E z \in Zones : CloneTouch(z)

SpecClone == InitDrag /\ [][NextClone]_vars

(***************************************************************************)
(*                                Claims                                    *)
(***************************************************************************)

\* filter, then search, then stable sort of the full items list.
ExpectedFiltered(t) ==
    LET a == IF t.currentFilter = "" THEN t.items
             ELSE FilterByCategory(t.items, t.currentFilter)
        b == IF t.currentSearch = <<>> THEN a ELSE FilterBySearch(a, t.currentSearch)
    IN  IF t.currentSort = "" THEN b ELSE StableSort(t.currentSort, b)

\* C1: on a loaded list, after any sequence of filter, search and sort
\* events, filteredItems is the full items list filtered by currentFilter,
\* then searched by currentSearch, then stable-sorted by currentSort.
C1_FilteredIsPipeline ==
    bl.listening => bl.filteredItems = ExpectedFiltered(bl)

Started(c) == call[c].startedAt >= 0

\* Call c is (re)started by this step.
Starts(c) == call[c].pc \in {"idle", "ok", "err"} /\ call'[c] # call[c]

AtMostOneNetworkCall ==
    \A c1, c2 \in Calls :
        (/\ c1 # c2
         /\ Started(c1) /\ Started(c2)
         /\ call[c2].startedAt - call[c1].startedAt \in 0..(5 * 60 * 1000 - 1))
        => call[c1].attempts + call[c2].attempts <= 1

\* C2 (as stated): two fetchData calls made less than 5 minutes apart issue
\* at most one network call in total, and a call made once the cached entry
\* is 5 minutes old or older issues a network call.
C2_AsStated ==
    /\ []AtMostOneNetworkCall
    /\ [][\A c \in Calls :
            (/\ Starts(c)
             /\ apiUrl \in DOMAIN bl.cache
             /\ now - bl.cache[apiUrl].timestamp >= 5 * 60 * 1000)
            => call'[c].attempts = 1
        ]_vars

\* C2 (amended): a call made while the cached entry is less than 5 minutes
\* old, in particular one made less than 5 minutes after a call that has
\* completed with a successful network fetch (of at most 3 attempts), returns
\* without a network call; a call made once the entry is 5 minutes old or
\* older issues a network call.
C2_CacheServesLaterCall ==
    [][\A c \in Calls : Starts(c) =>
          LET hasEntry == apiUrl \in DOMAIN bl.cache
              age      == now - bl.cache[apiUrl].timestamp
              served   == call'[c].pc = "ok" /\ call'[c].attempts = 0
          IN  /\ (hasEntry /\ age < 5 * 60 * 1000) => served
              /\ \A c1 \in Calls :
                    (/\ call[c1].pc = "ok" /\ call[c1].attempts >= 1
                     /\ now - call[c1].startedAt < 5 * 60 * 1000)
                    => served /\ call[c1].attempts <= 3
              /\ (hasEntry /\ age >= 5 * 60 * 1000)
                    => call'[c].pc = "fetch" /\ call'[c].attempts = 1
              /\ ~hasEntry => call'[c].pc = "fetch" /\ call'[c].attempts = 1
      ]_vars

\* A later call served from the cache that an earlier call's second attempt
\* filled, less than 5 minutes before.
C2_Witness ==
    \E c1, c2 \in Calls :
        /\ c1 # c2
        /\ call[c1].pc = "ok" /\ call[c1].attempts = 2
        /\ call[c2].pc = "ok" /\ call[c2].attempts = 0
        /\ call[c2].startedAt - call[c1].startedAt = TickMs
        /\ bl.items = call[c1].got

\* C3: when a call's first two attempts fail and the third succeeds, the call
\* returns with items and filteredItems set to the third attempt's array and
\* the cache holding it, after exactly two delays.
C3_ThirdAttemptSucceeds ==
    [][\A c \in Calls :
          (call[c].pc = "fetch" /\ call[c].attempts = 3 /\ call'[c].pc = "ok")
          => /\ call'[c].got \in Datasets
             /\ bl'.items = call'[c].got
             /\ bl'.filteredItems = call'[c].got
             /\ apiUrl \in DOMAIN bl'.cache
             /\ bl'.cache[apiUrl] = [data |-> call'[c].got, timestamp |-> now]
             /\ call'[c].delays = <<1000, 2000>>
             /\ call'[c].attempts = 3
      ]_vars

C3_Witness ==
    \E c \in Calls :
        /\ call[c].pc = "ok" /\ call[c].attempts = 3 /\ Len(call[c].delays) = 2
        /\ call[c].got = Small
        /\ bl.items = Small /\ bl.filteredItems = Small
        /\ bl.cache[apiUrl].data = Small

\* The message of a failed attempt, as the code words it.
FailureText(r) ==
    IF r.kind = "http" THEN "HTTP error! status: " \o r.text
    ELSE IF r.kind = "not-array" THEN "Unexpected API response"
    ELSE r.text

\* C4: a call makes at most 3 attempts; after 3 failures it makes no further
\* attempt and no further delay and throws 'Failed to fetch blogs: ' followed
\* by the last attempt's error, which init shows in the error container.
C4_ThreeAttemptsThenError ==
    /\ \A c \in Calls :
          /\ call[c].attempts <= 3
          /\ Len(call[c].delays) <= 2
          /\ call[c].pc = "delay" => call[c].attempts < 3
          /\ call[c].pc = "err" =>
                /\ call[c].attempts = 3
                /\ call[c].delays = <<1000, 2000>>
                /\ call[c].lastFailure.kind \in {"http", "not-array", "reject"}
                /\ call[c].thrown =
                      "Failed to fetch blogs: " \o FailureText(call[c].lastFailure)
    /\ (bl.initPc = "error" /\ bl.hasErrorContainer) =>
          /\ ~bl.errorHidden
          /\ bl.errorText = "Error: " \o call[InitCall].thrown
          /\ call[InitCall].pc = "err"

C4_Witness ==
    /\ bl.initPc = "error"
    /\ call[InitCall].pc = "err"
    /\ call[InitCall].attempts = 3
    /\ bl.errorText = "Error: Failed to fetch blogs: HTTP error! status: 500"

\* The list container before the first render.
Unrendered == bl.listContent = [kind |-> "articles", entries |-> <<>>]

InitPhases ==
    /\ bl.initPc = "idle" =>
          call[InitCall].pc = "idle" /\ bl.loadingHidden /\ Unrendered /\ bl.errorHidden
    /\ bl.initPc = "loading" =>
          /\ call[InitCall].pc \in {"fetch", "delay"}
          /\ bl.hasLoadingIndicator => ~bl.loadingHidden
          /\ Unrendered /\ bl.errorHidden /\ ~bl.listening
    /\ bl.initPc = "ready" =>
          /\ call[InitCall].pc = "ok"
          /\ ~Unrendered /\ bl.listening
          /\ bl.errorHidden /\ bl.errorText = ""
          /\ bl.loadingHidden
    /\ bl.initPc = "error" =>
          /\ call[InitCall].pc = "err"
          /\ bl.hasErrorContainer =>
                ~bl.errorHidden /\ bl.errorText = "Error: " \o call[InitCall].thrown
          /\ Unrendered /\ ~bl.listening
          /\ bl.loadingHidden
    /\ call[InitCall].pc # "idle" => bl.initPc # "idle"

\* C5: init goes idle -> loading -> ready or error; the loading indicator is
\* shown while the fetch runs; on success the list is rendered and no error is
\* shown, on failure the error is shown and the list is not rendered; in both
\* outcomes the loading indicator is hidden when init has finished.
C5_InitLifecycle ==
    /\ []InitPhases
    /\ [][bl'.initPc # bl.initPc =>
             <<bl.initPc, bl'.initPc>> \in
                 {<<"idle", "loading">>, <<"loading", "ready">>, <<"loading", "error">>}
        ]_vars

C5_Witness ==
    /\ bl.initPc = "error"
    /\ bl.hasLoadingIndicator /\ bl.loadingHidden
    /\ bl.hasErrorContainer /\ ~bl.errorHidden
    /\ Unrendered

Displayed == bl.listContent.entries

\* What render shows: the first min(|filteredItems|, page * perPage) entries,
\* or the notice when there is none.
ShowsWindow ==
    bl.listening =>
        LET n == Min(Len(bl.filteredItems), bl.page * perPage)
        IN  /\ Len(Displayed) = n
            /\ Len(Displayed) <= bl.page * perPage
            /\ \A i \in 1..n : Displayed[i] = bl.filteredItems[i]
            /\ bl.listContent.kind = IF n = 0 THEN "no-results" ELSE "articles"

\* C6 (as stated): render shows exactly the first min(|filteredItems|,
\* page * perPage) entries, the notice when there is none, and the number of
\* entries shown grows from one render to the next only when page has advanced.
C6_AsStated ==
    /\ []ShowsWindow
    /\ [][(bl.listening /\ Len(bl'.listContent.entries) > Len(Displayed))
             => bl'.page > bl.page
        ]_vars

\* C6 (amended): as above, but the number of entries shown grows from one
\* render to the next only when page has advanced or filteredItems has grown.
C6_WindowOfFiltered ==
    /\ []ShowsWindow
    /\ [][(bl.listening /\ Len(bl'.listContent.entries) > Len(Displayed))
             => (bl'.page > bl.page \/ Len(bl'.filteredItems) > Len(bl.filteredItems))
        ]_vars

\* A list longer than one page, cut to the page.
C6_Witness ==
    /\ bl.listening
    /\ Len(bl.filteredItems) > perPage
    /\ Len(Displayed) = perPage
    /\ bl.currentSort = "date"

\* C7: a drop of item X on zone Z, by mouse or by touch, removes X from its
\* parent and leaves a copy of X as the only item of Z; so every drop zone
\* holds at most one item.
C7_DropLeavesSoleItem ==
    /\ (dd.last.ev \in {"drop", "touchend"} /\ dd.last.item # 0 /\ dd.last.zone # 0) =>
          /\ dd.where[dd.last.item] = "gone"
          /\ Len(dd.zone[dd.last.zone]) = 1
          /\ dd.zone[dd.last.zone][1].item = dd.last.item
    /\ \A z \in Zones : Len(dd.zone[z]) <= 1

\* C8: exactly one nav link is active, and it is the link of the section most
\* recently reported at least 50% visible or most recently clicked.
C8_ExactlyOneActive ==
    /\ Cardinality(nav.active) = 1
    /\ nav.lastTarget # "" => nav.active = {i \in NavLinks : Href(i) = nav.lastTarget}

MenuClosed == ~nav.visible /\ nav.ariaExpanded = "false"

\* C9: a resize to a width of 768 or more, an Escape keydown, and a click on
\* a nav link with an existing target at a width below 768 each leave the
\* menu closed, whatever it was before.
C9_ClosingEventsClose ==
    /\ (nav.last.ev = "resize" /\ nav.innerWidth >= 768) => MenuClosed
    /\ (nav.last.ev = "keydown" /\ nav.last.arg = "Escape") => MenuClosed
    /\ (nav.last.ev = "click" /\ nav.last.arg \in Sections /\ nav.innerWidth < 768)
          => MenuClosed

\* The open menu closed by a resize to 800.
C9_Witness ==
    /\ nav.last.ev = "resize"
    /\ nav.last.visibleBefore
    /\ nav.innerWidth = 800
    /\ MenuClosed

\* C10: with the menu open and focus on link i of n, ArrowDown / ArrowRight
\* focus link (i + 1) mod n and ArrowUp / ArrowLeft link (i - 1) mod n
\* (links counted from 0); with the menu closed arrow keys move no focus.
C10_ArrowKeysCycle ==
    LET e == nav.last
        i == e.focusBefore - 1
    IN  e.ev = "keydown" =>
          /\ (e.visibleBefore /\ e.focusBefore \in NavLinks
                /\ e.arg \in {"ArrowDown", "ArrowRight"})
                => nav.focus - 1 = (i + 1) % NumLinks
          /\ (e.visibleBefore /\ e.focusBefore \in NavLinks
                /\ e.arg \in {"ArrowUp", "ArrowLeft"})
                => nav.focus - 1 = (i - 1) % NumLinks
          /\ ~e.visibleBefore => nav.focus = e.focusBefore

\* ArrowUp on the first link of the open menu focuses the last link.
C10_Witness ==
    /\ nav.last.ev = "keydown" /\ nav.last.arg = "ArrowUp"
    /\ nav.last.visibleBefore
    /\ nav.last.focusBefore = 1
    /\ nav.focus = NumLinks
    /\ nav.visible

\* The controller has been torn down.
Destroyed == "observer" \notin nav.listeners

\* C11: after destroy() no toggle click, link click, resize, scroll, keydown
\* or intersection report changes the active link, the menu state, the sticky
\* class or the browser history.
C11_DestroyedIsInert ==
    [][Destroyed =>
          /\ nav'.active = nav.active
          /\ nav'.visible = nav.visible
          /\ nav'.ariaExpanded = nav.ariaExpanded
          /\ nav'.sticky = nav.sticky
          /\ nav'.history = nav.history
      ]_vars

\* C12: aria-expanded is "true" exactly when the nav list is visible, and the
\* links with aria-current are exactly the active links.
C12_AriaInSync ==
    /\ (nav.ariaExpanded = "true") <=> nav.visible
    /\ nav.ariaExpanded \in {"true", "false"}
    /\ nav.ariaCurrent = nav.active

\* The menu opened by the toggle and link 2 activated by a click.
C12_Witness ==
    /\ nav.visible /\ nav.ariaExpanded = "true"
    /\ nav.active = {2} /\ nav.ariaCurrent = {2}
    /\ nav.last.ev = "click"

\* A touch is in progress and the 200 ms timer of its touchstart has not fired.
LongPressPending == dd.touch # 0 /\ dd.touchTimeout

\* C13: on the touch path the dragging class and the fixed positioning are
\* applied to the item only after the touch was held for 200 ms: while the
\* timer of the touch is pending no step of the touch path (a step other than
\* the timer firing or a mouse drag starting) gives the touched item drag
\* visuals.
C13_NoVisualsBeforeLongPress ==
    [][(/\ LongPressPending
        /\ dd'.drag = 0
        /\ dd'.touchTimeout \/ dd'.last.ev = "touchend") =>
          /\ dd'.fixed[dd.touch] => dd.fixed[dd.touch]
          /\ dd'.dragging[dd.touch] => dd.dragging[dd.touch]
      ]_vars

\* C14: after every touchmove of a touch drag the drag-over class is on a
\* zone exactly when that zone is under the touch point, so during a touch
\* drag at most one zone has drag-over.
C14_DragOverTracksTouch ==
    /\ (dd.last.ev = "touchmove" /\ dd.last.item # 0) =>
          \A z \in Zones : dd.over[z] <=> z = dd.last.zone
    /\ dd.touch # 0 => Cardinality({z \in Zones : dd.over[z]}) <= 1

\* This step is the touchend of a touch drag, outside every drop zone.
TouchEndOutside ==
    /\ dd.touch # 0 /\ dd.draggedItem # 0
    /\ dd'.last.ev = "touchend" /\ dd'.last.zone = 0

\* C15: a touch drag that ends outside every drop zone changes no
\* arrangement: the item stays in its parent, the zones keep their items, and
\* afterwards the item has no inline position and no dragging class, no zone
\* has drag-over, the long-press timer is cancelled and draggedItem is null.
C15_TouchEndOutsideIsNoOp ==
    [][TouchEndOutside =>
          LET i == dd.draggedItem
          IN  /\ dd'.where = dd.where
              /\ dd'.zone = dd.zone
              /\ ~dd'.fixed[i] /\ ~dd'.dragging[i]
              /\ \A z \in Zones : ~dd'.over[z]
              /\ ~dd'.touchTimeout
              /\ dd'.draggedItem = 0
      ]_vars

\* Item 2 released outside the zones while zone 1 holds item 1.
C15_Witness ==
    /\ dd.last = [ev |-> "touchend", item |-> 2, zone |-> 0]
    /\ dd.where = <<"gone", "list">>
    /\ Len(dd.zone[1]) = 1
    /\ ~dd.fixed[2] /\ ~dd.dragging[2]
    /\ dd.draggedItem = 0

\* The calls whose network request is in flight.
InFlight == {c \in Calls : call[c].pc = "fetch"}

OneInFlight == Cardinality(InFlight) <= 1

\* C16: at most one network request of the controller is in flight, whatever
\* calls are made to init or fetchData; a new attempt starts only after the
\* previous one has completed and, after a failure, its delay has elapsed.
C16_OneRequestInFlight ==
    /\ []OneInFlight
    /\ [][\A c \in Calls :
            (call'[c].pc = "fetch" /\ call[c].pc # "fetch") =>
                \/ call[c].pc = "delay" /\ call'[c].attempts = call[c].attempts + 1
                \/ call[c].pc \in {"idle", "ok", "err"} /\ call'[c].attempts = 1
        ]_vars

\* This step is the debounce timer's callback: onSearchInput runs.
SearchRuns == bl.searchTimer /\ ~bl'.searchTimer

\* C17: a run of input events less than 250 ms apart triggers onSearchInput
\* once, 250 ms after the last event and with the last typed value; no search
\* is applied for the values before; and when a sort or filter change came
\* during the pending delay, filteredItems is consistent with the three
\* current criteria once the delayed search has run.
C17_DebouncedSearch ==
    [][/\ SearchRuns =>
            /\ bl.searchElapsed = DebounceMs
            /\ bl'.currentSearch = toLowerCase(bl.searchValue)
       /\ bl'.currentSearch # bl.currentSearch => SearchRuns
       /\ (SearchRuns /\ bl.changedWhilePending) =>
            bl'.filteredItems = ExpectedFiltered(bl')
      ]_vars

\* items and the cached data are the array the fetch returned, unchanged, and
\* filteredItems is another array.
ItemsAreFetchedData ==
    bl.listening =>
        /\ bl.items = call[InitCall].got
        /\ bl.cache[apiUrl].data = call[InitCall].got
        /\ ~bl.shared

\* C18: after a successful fetch no filter, search or sort event changes
\* items or the cached data array: both stay the fetched data, in its order,
\* and filteredItems is never the same array as items.
C18_ItemsImmutable ==
    /\ []ItemsAreFetchedData
    /\ [][bl.listening => (bl'.items = bl.items /\ bl'.cache = bl.cache)]_vars

\* The list sorted by reading time, in another order than items.
C18_Witness ==
    /\ bl.listening
    /\ bl.currentSort = "reading_time"
    /\ bl.items = Small
    /\ bl.filteredItems # bl.items
    /\ Len(bl.filteredItems) = Len(bl.items)
    /\ bl.cache[apiUrl].data = Small

\* The number of times x occurs in s.
Occurrences(x, s) == Cardinality({i \in 1..Len(s) : s[i] = x})

\* The entries of items that satisfy the current filter and search.
Selected(t) ==
    {x \in {t.items[i] : i \in 1..Len(t.items)} :
        /\ t.currentFilter # "" => MatchesFilter(x, t.currentFilter)
        /\ t.currentSearch # <<>> => MatchesSearch(x, t.currentSearch)}

\* C20: on a loaded list, after any filter, search and sort events,
\* filteredItems holds exactly the entries of items that satisfy the current
\* filter and the current search, each as often as items holds it, in
\* whatever order.
C20_FilteredMembers ==
    bl.listening =>
        /\ \A i \in 1..Len(bl.filteredItems) : bl.filteredItems[i] \in Selected(bl)
        /\ \A x \in Selected(bl) :
              Occurrences(x, bl.filteredItems) = Occurrences(x, bl.items)

\* A filter and a search both set, the sort changed since, one entry left.
C20_Witness ==
    /\ bl.listening
    /\ bl.currentFilter = "y" /\ bl.currentSearch = <<"a">> /\ bl.currentSort = "date"
    /\ bl.items = Small
    /\ Len(bl.filteredItems) = 1
    /\ bl.filteredItems[1].title = <<"a", "b">>

\* C19: once a drag gesture has ended (dragend after a mouse drag, touchend
\* after a touch drag, with or without a drop) no item of the document has
\* the dragging class, the clone a drop placed in a zone included.
C19_NoDraggingAfterGesture ==
    (dd.last.ev \in {"dragend", "touchend"} /\ dd.last.item # 0) =>
        /\ \A i \in Items : dd.where[i] = "list" => ~dd.dragging[i]
        /\ \A z \in Zones : \A k \in 1..Len(dd.zone[z]) : ~dd.zone[z][k].dragging

\* This step is part of a mouse drag that started on a clone.
CloneGesture == dd.cloneDrag \/ dd'.cloneDrag

\* This step is a drop, by mouse or by touch, that moves item i into a zone.
Moves(i) ==
    /\ dd'.last.ev \in {"drop", "touchend"}
    /\ dd'.last.item = i /\ dd'.last.zone # 0
    /\ dd'.zone # dd.zone

\* C21: the listeners are on the items init found and a drop replaces the
\* item by a clone without listeners: each item is moved by at most one drop,
\* and no gesture on a dropped item (its clone in the zone) changes
\* draggedItem or any zone's contents.
C21_DroppedItemsAreInert ==
    [][/\ \A i \in Items : Moves(i) => dd.where[i] = "list"
       /\ CloneGesture =>
            /\ dd'.draggedItem = dd.draggedItem
            /\ dd'.zone = dd.zone
      ]_vars

==============================================================================
